---- MODULE Spec2Model ----
(***************************************************************************)
(* Catalog version ingestion pipeline of semantic_product_search:          *)
(* ProvidersCatalogService.processCatalog and its collaborators, over the  *)
(* relational store (CatalogProviderVersion), the document store           *)
(* (catalog_items), the vector index and the audit log.                    *)
(***************************************************************************)
EXTENDS Integers, Sequences, FiniteSets, TLC

\* ------------------------------------------------------------------ bounds
\* Number of processCatalog runs (uploads) in one behaviour.
MaxRuns == 2
\* Number of faults (throwing store / provider calls) in one behaviour.
MaxFaults == 3
\* VectorDbService.BATCH_SIZE is 100 in the source; the model scales it down
\* so that an upsert of a catalog of MaxRows rows spans several batches.
BATCH_SIZE == 1

\* Latest value of the clock (Date.now()), which starts at 1.
MaxClock == 4
\* config.security.lockTime, in clock ticks.
LOCK_TIME == 2
\* recordFailure calls accumulated for one email before the model stops
\* recording more; above MAX_ATTEMPTS, so that failures are recorded while
\* the email is locked.
MaxFailures == 4
\* AuthService calls (signIn, refreshToken) that can be in flight together.
MaxCalls == 2
\* Rows of the RefreshToken table.
MaxTokens == 3
\* config.jwt.refreshExpiresIn, in clock ticks.
REFRESH_TTL == 2

\* ------------------------------------------------------- program constants
MAX_RETRIES == 3
BASE_DELAY_MS == 500
\* config.security.maxFailedAttempts
MAX_ATTEMPTS == 3

REQUIRED_FIELDS == <<"providerCode", "sku", "name", "description", "category">>

PROCESSING == "PROCESSING"
ACTIVE == "ACTIVE"
ARCHIVED == "ARCHIVED"
FAILED == "FAILED"

CATALOG_PROCESSING_FAILED == "CATALOG_PROCESSING_FAILED"
CATALOG_PROCESSING_SUCCEEDED == "CATALOG_PROCESSING_SUCCEEDED"

\* ------------------------------------------------------------------ inputs
Runs == 1..MaxRuns

\* The Provider table (read-only for the pipeline): id -> code.  Codes are
\* stored lower-cased and trimmed (CreateProviderDto).
ProviderTable == [p \in {"p1"} |-> "acme"]
\* Provider ids an upload may name; "px" has no Provider row.
ProviderIds == {"p1", "px"}

\* item.providerCode.trim().toLowerCase() over the codes the fixtures use.
NormalizeProviderCode(code) ==
    CASE code = "acme" -> "acme"
      [] code = " ACME " -> "acme"
      [] code = "Beta" -> "beta"
      [] OTHER -> code

Row(code, sku, description) ==
    [providerCode |-> code, sku |-> sku, name |-> "item",
     description |-> description, category |-> "tools"]

\* The uploaded files, by path: what CsvService.readCsv resolves with.
\* "gone.csv" cannot be read (readCsv rejects).
CsvFiles ==
    [f \in {"a.csv", "ab.csv", "empty.csv", "nosku.csv", "badcode.csv"} |->
        CASE f = "a.csv" -> <<Row("acme", "A", "first")>>
          [] f = "ab.csv" -> <<Row(" ACME ", "A", "second"), Row("acme", "B", "second")>>
          [] f = "empty.csv" -> <<>>
          [] f = "nosku.csv" -> <<Row("acme", "A", "first"), Row("acme", "", "first")>>
          [] f = "badcode.csv" -> <<Row("acme", "A", "first"), Row("Beta", "B", "first")>>]

FilePaths == DOMAIN CsvFiles \cup {"gone.csv"}

\* The uploads a behaviour draws from: every file for the provider, and one
\* upload naming the provider id that has no row.
Uploads ==
    {<<"p1", f>> : f \in FilePaths} \cup {<<"px", "a.csv">>}

\* ------------------------------------------------------------------- state
VARIABLES
    versions,   \* CatalogProviderVersion rows, in creation order; id = index
    items,      \* catalog_items documents
    vectors,    \* the vector index: vector id -> record, or NoVector
    audit,      \* audit events logged by each run, in order
    run,        \* each run's position and local variables
    faults      \* faults injected so far

\* The authentication module (FailedLoginService, AuthService).
VARIABLES
    clock,      \* Date.now()
    attempts,   \* FailedLoginService.attempts: email -> FailedAttempt
    history,    \* per email, the recordFailure calls accumulated since the
                \* last resetAttempts or lock expiry, and the time of the last
    active,     \* the users whose User.active is true
    tokenRecords,   \* the RefreshToken table, in creation order; id = index
    calls,      \* the AuthService calls in flight: position and locals
    response    \* the call that ended last: its input and its outcome

\* The error classification of the embedding and vector index services.
VARIABLES
    embeddingCall,  \* the last getEmbeddings call: its input, what the
                    \* provider did and what the call returned or threw
    pineconeCall    \* the last handlePineconeError call: the error it was
                    \* given and the flag of the exception it threw

classifyVars == <<embeddingCall, pineconeCall>>
catalogVars ==
    <<versions, items, vectors, audit, run, faults, embeddingCall, pineconeCall>>
authVars == <<clock, attempts, history, active, tokenRecords, calls, response>>
vars ==
    <<versions, items, vectors, audit, run, faults,
      clock, attempts, history, active, tokenRecords, calls, response,
      embeddingCall, pineconeCall>>

Emails == {"ann@x", "eve@x"}

\* No entry of the attempts map.  lockedUntil is 0 while undefined (clock
\* values are positive, so a lockedUntil that was set is never 0).  The
\* lastAttempt field is written and never read; it is left out.
NoAttempt == [count |-> 0, lockedUntil |-> 0]

NoHistory == [n |-> 0, at |-> 0]

\* The User table: one user; "eve@x" is nobody's email.
UserTable == [u \in {"u1"} |-> [email |-> "ann@x", password |-> "pw"]]
Passwords == {"pw", "bad"}

Calls == 1..MaxCalls

\* A refresh token as the client holds it: the signed payload.  sig tells
\* whether the signature is the one refreshSecret gives.
NoToken == [sub |-> "", jti |-> 0, exp |-> 0, sig |-> ""]
ForgedToken == [sub |-> "u1", jti |-> 1, exp |-> MaxClock + REFRESH_TTL, sig |-> "forged"]

IdleCall ==
    [op |-> "", pc |-> "idle", email |-> "", password |-> "",
     oldToken |-> NoToken, tokenRecord |-> 0, newJti |-> 0,
     result |-> "", refreshToken |-> NoToken, accessToken |-> "",
     log |-> <<>>]

AuthInit ==
    /\ clock = 1
    /\ attempts = [e \in Emails |-> NoAttempt]
    /\ history = [e \in Emails |-> NoHistory]
    /\ active = DOMAIN UserTable
    /\ tokenRecords = <<>>
    /\ calls = [c \in Calls |-> IdleCall]
    /\ response = IdleCall

\* No provider error (status and code absent), and no call made yet.
NoError == [status |-> 0, code |-> ""]
NoEmbeddingCall ==
    [text |-> "", outcome |-> [kind |-> "idle", error |-> NoError],
     result |-> [kind |-> "none", retryable |-> FALSE, statusCode |-> 0,
                 message |-> ""]]
NoPineconeCall ==
    [error |-> [status |-> 0, message |-> ""], called |-> FALSE,
     retryable |-> FALSE]

NoVector == [catalogVersionId |-> 0, values |-> <<>>]
VectorIds == {<<p, s>> : p \in ProviderIds, s \in {"A", "B"}}

NoReason == [msg |-> "", field |-> "", sku |-> ""]
Reason(msg) == [msg |-> msg, field |-> "", sku |-> ""]

IdleRun ==
    [pc |-> "idle", providerId |-> "", filePath |-> "", rows |-> <<>>,
     version |-> 0, idx |-> 0, attempt |-> 0, calls |-> 0,
     vectorDbItems |-> <<>>, upsertAttempt |-> 0, batch |-> 0,
     lastActiveVersionId |-> 0, then |-> "", delay |-> 0, error |-> "",
     printed |-> <<>>]

Init ==
    /\ versions = <<>>
    /\ items = {}
    /\ vectors = [id \in VectorIds |-> NoVector]
    /\ audit = [r \in Runs |-> <<>>]
    /\ run = [r \in Runs |-> IdleRun]
    /\ faults = 0
    /\ AuthInit
    /\ embeddingCall = NoEmbeddingCall
    /\ pineconeCall = NoPineconeCall

\* ------------------------------------------------------------ store reads
VersionIds == 1..Len(versions)

\* tx.catalogProviderVersion.findFirst({where: {providerId, status: 'ACTIVE'},
\* orderBy: {createdAt: 'desc'}}): the latest ACTIVE row, or 0.
FindFirstActive(p) ==
    LET act == {v \in VersionIds :
                  versions[v].providerId = p /\ versions[v].status = ACTIVE}
    IN IF act = {} THEN 0 ELSE CHOOSE v \in act : \A w \in act : w <= v

\* Mutant of UniqueViolation: an index that skips PROCESSING rows.
UniqueViolationSkipsProcessing(p, n) ==
    \E v \in VersionIds :
        /\ versions[v].providerId = p
        /\ versions[v].versionNumber = n
        /\ versions[v].status # PROCESSING

\* Mutant of UniqueViolation: an index that only sees ACTIVE rows.
UniqueViolationActiveOnly(p, n) ==
    \E v \in VersionIds :
        /\ versions[v].providerId = p
        /\ versions[v].versionNumber = n
        /\ versions[v].status = ACTIVE

\* Mutant of UniqueViolation: the schema without the unique index.
UniqueViolationNoIndex(p, n) == FALSE

\* The unique index CatalogProviderVersion_providerId_versionNumber_key.
UniqueViolation(p, n) ==
    \E v \in VersionIds :
        versions[v].providerId = p /\ versions[v].versionNumber = n

CanFault == faults < MaxFaults

Log(r, action, reason) ==
    [audit EXCEPT ![r] = Append(@, [action |-> action, reason |-> reason])]

\* ------------------------------------------------------ error classification
\* An error thrown by the embedding provider: status is error.status ??
\* error.response?.status (0 when absent), code is error.code ("" when absent).
EmbeddingErrors ==
    [status : {0, 400, 401, 403, 404, 429, 500, 599, 600},
     code : {"", "ECONNRESET", "ETIMEDOUT", "ENOTFOUND", "EOTHER"}]

\* The provider errors the pipeline's runs meet.
EmbeddingFaults ==
    {[status |-> 401, code |-> ""], [status |-> 500, code |-> ""],
     [status |-> 429, code |-> ""], [status |-> 0, code |-> "ETIMEDOUT"],
     [status |-> 0, code |-> "EOTHER"]}

\* Mutant of GetEmbeddingsRetryable: without the 401/403 and 400/404 lines.
GetEmbeddingsRetryableNoOverride(e) ==
    IF e.status = 429 THEN TRUE
    ELSE IF e.status # 0 /\ e.status >= 500 /\ e.status < 600 THEN TRUE
    ELSE IF e.code \in {"ECONNRESET", "ETIMEDOUT", "ENOTFOUND"} THEN TRUE
    ELSE FALSE

\* The retryable flag EmbeddingsService.getEmbeddings gives the
\* EmbeddingGenerationException it throws for a provider error.
GetEmbeddingsRetryable(e) ==
    LET first ==
            IF e.status = 429 THEN TRUE
            ELSE IF e.status # 0 /\ e.status >= 500 /\ e.status < 600 THEN TRUE
            ELSE IF e.code \in {"ECONNRESET", "ETIMEDOUT", "ENOTFOUND"} THEN TRUE
            ELSE FALSE
    IN IF e.status \in {401, 403} THEN FALSE
       ELSE IF e.status \in {400, 404} THEN FALSE
       ELSE first

\* An error thrown by the vector index client: status is error.status (0 when
\* absent or not a number), message is what error.message contains.
PineconeErrors ==
    [status : {0, 400, 401, 403, 404, 429, 500, 599, 600},
     message : {"", "ECONNRESET", "ETIMEDOUT", "ENOTFOUND", "fetch failed"}]

\* The vector index errors the pipeline's runs meet.
PineconeFaults ==
    {[status |-> 400, message |-> ""], [status |-> 500, message |-> ""],
     [status |-> 0, message |-> "fetch failed"], [status |-> 0, message |-> ""]}

\* The retryable flag VectorDbService.handlePineconeError gives the
\* VectorDbException it throws.
HandlePineconeErrorRetryable(e) ==
    IF e.status = 429 THEN TRUE
    ELSE IF e.status # 0 /\ e.status >= 500 THEN TRUE
    ELSE IF e.message \in {"ECONNRESET", "ETIMEDOUT", "fetch failed"} THEN TRUE
    ELSE FALSE

\* --------------------------------------------------------------- validation
\* Rows and required fields that are empty, as (row, field) index pairs.
MissingFields(rows) ==
    {<<i, j>> \in (1..Len(rows)) \X (1..Len(REQUIRED_FIELDS)) :
        rows[i][REQUIRED_FIELDS[j]] = ""}

\* The first pair in the order of the nested loops (rows, then fields).
FirstPair(S) ==
    CHOOSE x \in S : \A y \in S : x[1] < y[1] \/ (x[1] = y[1] /\ x[2] <= y[2])

\* Mutant of WrongCode: the provider code of the rows is not compared.
WrongCodeUnchecked(rows, code) == {}

WrongCode(rows, code) ==
    {i \in 1..Len(rows) : NormalizeProviderCode(rows[i].providerCode) # code}

\* validateCatalogPreconditions: [kind, reason, rows].  kind is "valid",
\* "reject" (an audit event was logged and undefined returned) or "throw"
\* (readCsv rejected, nothing logged).
ValidateCatalogPreconditions(providerId, filePath) ==
    IF providerId \notin DOMAIN ProviderTable
    THEN [kind |-> "reject", reason |-> Reason("Provider not found"), rows |-> <<>>]
    ELSE IF filePath \notin DOMAIN CsvFiles
    THEN [kind |-> "throw", reason |-> NoReason, rows |-> <<>>]
    ELSE LET rows == CsvFiles[filePath]
             code == ProviderTable[providerId]
         IN IF Len(rows) = 0
            THEN [kind |-> "reject",
                  reason |-> Reason("CSV file is empty or invalid"), rows |-> <<>>]
            ELSE IF MissingFields(rows) # {}
            THEN LET m == FirstPair(MissingFields(rows))
                 IN [kind |-> "reject",
                     reason |-> [msg |-> "Missing required field",
                                 field |-> REQUIRED_FIELDS[m[2]],
                                 sku |-> rows[m[1]].sku],
                     rows |-> <<>>]
            ELSE IF WrongCode(rows, code) # {}
            THEN LET i == CHOOSE i \in WrongCode(rows, code) :
                              \A j \in WrongCode(rows, code) : i <= j
                 IN [kind |-> "reject",
                     reason |-> [msg |-> "Invalid provider code",
                                 field |-> rows[i].providerCode,
                                 sku |-> rows[i].sku],
                     rows |-> <<>>]
            ELSE [kind |-> "valid", reason |-> NoReason, rows |-> rows]

\* ------------------------------------------------------------------ actions
\* processCatalog's locals change; the pipeline does not touch the
\* authentication module.
Set(r, rec) ==
    /\ run' = [run EXCEPT ![r] = rec]
    /\ UNCHANGED authVars
    /\ UNCHANGED classifyVars

\* processCatalog's promise settles ("resolved" or "rejected"): its loop
\* variables are gone; the input, the version it opened and the old version it
\* archived are kept to tell the run's outcome.
Settled(rec, how) ==
    [IdleRun EXCEPT !.pc = how, !.providerId = rec.providerId,
                    !.filePath = rec.filePath, !.version = rec.version,
                    !.lastActiveVersionId = rec.lastActiveVersionId,
                    !.then = rec.then, !.printed = rec.printed]

\* processCatalog entered: validateCatalogPreconditions runs against the
\* (read-only) Provider table and the file.  A rejection logs one audit event
\* and returns undefined, which processCatalog then destructures: the promise
\* rejects with a TypeError.  Runs are numbered in the order they start.
ProcessCatalog(r, providerId, filePath) ==
    /\ run[r].pc = "idle"
    /\ IF r = 1 THEN TRUE ELSE run[r - 1].pc # "idle"
    /\ LET v == ValidateCatalogPreconditions(providerId, filePath)
           started == [run[r] EXCEPT !.providerId = providerId,
                                     !.filePath = filePath]
       IN CASE v.kind = "valid" ->
                 /\ Set(r, [started EXCEPT !.pc = "open", !.rows = v.rows])
                 /\ UNCHANGED audit
            [] v.kind = "reject" ->
                 /\ Set(r, Settled(started, "rejected"))
                 /\ audit' = Log(r, CATALOG_PROCESSING_FAILED, v.reason)
            [] OTHER ->
                 /\ Set(r, Settled(started, "rejected"))
                 /\ UNCHANGED audit
    /\ UNCHANGED <<versions, items, vectors, faults>>

\* handleProcessFailure entered: its audit event is logged (auditService.log
\* never throws); the status update and the item cleanup follow as steps.
\* then is where control goes when the handler returns.
EnterFailure(r, rec, msg, then) ==
    /\ Set(r, [rec EXCEPT !.pc = "hpf_update", !.then = then])
    /\ audit' = Log(r, CATALOG_PROCESSING_FAILED, Reason(msg))

\* Step 2: the transaction that reads the latest ACTIVE version and inserts
\* the new row with status PROCESSING.
OpenVersionOk(r) ==
    /\ run[r].pc = "open"
    /\ LET p == run[r].providerId
           last == FindFirstActive(p)
           n == IF last # 0 THEN versions[last].versionNumber + 1 ELSE 1
       IN IF UniqueViolation(p, n)
          THEN /\ audit' = Log(r, CATALOG_PROCESSING_FAILED,
                               Reason("Duplicate version number"))
               /\ Set(r, Settled(run[r], "resolved"))
               /\ UNCHANGED versions
          ELSE /\ versions' = Append(versions,
                       [providerId |-> p, versionNumber |-> n,
                        status |-> PROCESSING])
               /\ Set(r, [run[r] EXCEPT !.pc = "stage",
                                        !.version = Len(versions) + 1])
               /\ UNCHANGED audit
    /\ UNCHANGED <<items, vectors, faults>>

\* Step 2 when the relational store throws something else: nothing is written.
OpenVersionFault(r) ==
    /\ run[r].pc = "open"
    /\ CanFault
    /\ faults' = faults + 1
    /\ audit' = Log(r, CATALOG_PROCESSING_FAILED, Reason("Unknown error"))
    /\ Set(r, Settled(run[r], "resolved"))
    /\ UNCHANGED <<versions, items, vectors>>

\* The documents insertMany builds from the rows, restricted to the rows in S.
StagedItems(r, S) ==
    {[providerId |-> run[r].providerId, catalogVersionId |-> run[r].version,
      sku |-> run[r].rows[i].sku, row |-> i, active |-> FALSE] : i \in S}

\* Step 3: insertMany of every row, active: false.
InsertItemsOk(r) ==
    /\ run[r].pc = "stage"
    /\ items' = items \cup StagedItems(r, 1..Len(run[r].rows))
    /\ Set(r, [run[r] EXCEPT !.pc = "embed", !.idx = 1, !.attempt = 0,
                             !.calls = 0])
    /\ UNCHANGED <<versions, vectors, audit, faults>>

\* Step 3 throwing: with {ordered: false} the documents that did not fail are
\* inserted all the same.
InsertItemsFault(r) ==
    /\ run[r].pc = "stage"
    /\ CanFault
    /\ faults' = faults + 1
    /\ \E S \in SUBSET (1..Len(run[r].rows)) :
          /\ S # 1..Len(run[r].rows)
          /\ items' = items \cup StagedItems(r, S)
    /\ EnterFailure(r, run[r], "Error saving items to MongoDB", "return")
    /\ UNCHANGED <<versions, vectors>>

\* buildItemEmbeddingText: the name, description and category of the item (the
\* fixtures carry no optional attribute).  The embedding provider is taken to
\* answer a text with a vector that stands for that text.
BuildItemEmbeddingText(item) == <<item.name, item.description, item.category>>

\* The ProductVectorDocument step 4 pushes for row i of run r.
VectorDocument(r, i) ==
    [id |-> <<run[r].providerId, run[r].rows[i].sku>>,
     values |-> BuildItemEmbeddingText(run[r].rows[i]),
     catalogVersionId |-> run[r].version]

\* Mutant of Backoff: the same wait before every retry.
BackoffConstant(attempt) == BASE_DELAY_MS

\* BASE_DELAY_MS * 2 ** (attempt - 1)
Backoff(attempt) == BASE_DELAY_MS * (2 ^ (attempt - 1))

\* Mutant of RetryDecision: the retryable flag is not looked at.
RetryDecisionIgnoringFlag(attempt, retryable) ==
    IF attempt < MAX_RETRIES THEN "retry" ELSE "exhausted"

\* What the catch block of a retry loop does with a caught exception, attempt
\* already incremented: a non-retryable one aborts at once, a retryable one is
\* retried while attempts are left.
RetryDecision(attempt, retryable) ==
    IF ~retryable THEN "fatal"
    ELSE IF attempt < MAX_RETRIES THEN "retry"
    ELSE "exhausted"

\* Step 4, one getEmbeddings call that succeeds: the vector is pushed and the
\* loop goes on to the next item, or to step 5 after the last one.
EmbedOk(r) ==
    /\ run[r].pc = "embed"
    /\ run[r].attempt < MAX_RETRIES
    /\ LET pushed == [run[r] EXCEPT
                        !.vectorDbItems = Append(@, VectorDocument(r, run[r].idx)),
                        !.calls = IF run[r].attempt = 0 THEN 1 ELSE @ + 1,
                        !.error = ""]
       IN IF run[r].idx < Len(run[r].rows)
          THEN Set(r, [pushed EXCEPT !.idx = @ + 1, !.attempt = 0, !.delay = 0])
          ELSE Set(r, [pushed EXCEPT !.pc = "upsert", !.upsertAttempt = 0,
                                     !.batch = 0, !.delay = 0])
    /\ UNCHANGED <<versions, items, vectors, audit, faults>>

\* Step 4, one getEmbeddings call that throws EmbeddingGenerationException
\* with the flag getEmbeddings gives error e.
EmbedFault(r, e) ==
    /\ run[r].pc = "embed"
    /\ run[r].attempt < MAX_RETRIES
    /\ CanFault
    /\ faults' = faults + 1
    /\ LET attempt == run[r].attempt + 1
           retryable == GetEmbeddingsRetryable(e)
           caught == [run[r] EXCEPT
                        !.attempt = attempt,
                        !.calls = IF run[r].attempt = 0 THEN 1 ELSE @ + 1,
                        !.error = IF retryable THEN "retryable" ELSE "fatal"]
           decision == RetryDecision(attempt, retryable)
       IN CASE decision = "fatal" ->
                 EnterFailure(r, caught, "Non-retryable OpenAI error", "return")
            [] decision = "retry" ->
                 /\ Set(r, [caught EXCEPT !.delay = Backoff(attempt)])
                 /\ UNCHANGED audit
            [] OTHER ->
                 EnterFailure(r, caught,
                              "Failed to generate embeddings after 3 attempts",
                              "return")
    /\ UNCHANGED <<versions, items, vectors>>

\* upsertProviderVectors slices newVectors into batches of BATCH_SIZE.
NumBatches(n) == (n + BATCH_SIZE - 1) \div BATCH_SIZE

\* newVectors.slice(i, i + BATCH_SIZE) for the b-th batch (b from 0).
BatchOf(docs, b) ==
    {docs[k] : k \in {k \in 1..Len(docs) :
                        k > b * BATCH_SIZE /\ k <= (b + 1) * BATCH_SIZE}}

\* index.upsert({records}): each record replaces what its id held.
UpsertRecords(recs) ==
    [id \in VectorIds |->
        IF \E d \in recs : d.id = id
        THEN LET d == CHOOSE d \in recs : d.id = id
             IN [catalogVersionId |-> d.catalogVersionId, values |-> d.values]
        ELSE vectors[id]]

\* Mutant of DeleteByVersion: the filter leaves out catalogVersionId.
DeleteByVersionAnyVersion(p, v) ==
    [id \in VectorIds |-> IF id[1] = p THEN NoVector ELSE vectors[id]]

\* Mutant of DeleteByVersion: the delete removes nothing.
DeleteByVersionNothing(p, v) == vectors

\* index.deleteMany({filter: {providerId, catalogVersionId}})
DeleteByVersion(p, v) ==
    [id \in VectorIds |->
        IF id[1] = p /\ vectors[id].catalogVersionId = v
        THEN NoVector ELSE vectors[id]]

UpsertCalls(r) ==
    IF run[r].batch # 0 THEN run[r].calls
    ELSE IF run[r].upsertAttempt = 0 THEN 1 ELSE run[r].calls + 1

\* Step 5, one batch of the current upsertProviderVectors call upserted; the
\* call returns after the last batch and step 6 follows.
UpsertBatchOk(r) ==
    /\ run[r].pc = "upsert"
    /\ run[r].upsertAttempt < MAX_RETRIES
    /\ vectors' = UpsertRecords(BatchOf(run[r].vectorDbItems, run[r].batch))
    /\ LET sent == [run[r] EXCEPT !.calls = UpsertCalls(r), !.error = ""]
       IN IF run[r].batch + 1 < NumBatches(Len(run[r].vectorDbItems))
          THEN Set(r, [sent EXCEPT !.batch = @ + 1])
          ELSE Set(r, [sent EXCEPT !.pc = "activate", !.batch = 0, !.delay = 0])
    /\ UNCHANGED <<versions, items, audit, faults>>

\* Step 5, a batch's index.upsert throws: handlePineconeError turns error e
\* into a VectorDbException and the whole call is what the loop retries.
UpsertBatchFault(r, e) ==
    /\ run[r].pc = "upsert"
    /\ run[r].upsertAttempt < MAX_RETRIES
    /\ CanFault
    /\ faults' = faults + 1
    /\ LET attempt == run[r].upsertAttempt + 1
           retryable == HandlePineconeErrorRetryable(e)
           caught == [run[r] EXCEPT
                        !.upsertAttempt = attempt,
                        !.calls = UpsertCalls(r),
                        !.batch = 0,
                        !.error = IF retryable THEN "retryable" ELSE "fatal"]
           decision == RetryDecision(attempt, retryable)
       IN CASE decision = "fatal" ->
                 EnterFailure(r, caught, "Non-retryable Pinecone error", "return")
            [] decision = "retry" ->
                 /\ Set(r, [caught EXCEPT !.delay = Backoff(attempt)])
                 /\ UNCHANGED audit
            [] OTHER ->
                 EnterFailure(r, caught,
                              "Failed to upsert vectors after 3 attempts", "return")
    /\ UNCHANGED <<versions, items, vectors>>

\* Mutant of ActivateVersion: the old ACTIVE version is not archived.
ActivateVersionNoArchive(p, v) ==
    [w \in VersionIds |->
        IF w = v THEN [versions[w] EXCEPT !.status = ACTIVE] ELSE versions[w]]

\* The activation transaction's writes: the latest ACTIVE version of the
\* provider, when it is another row, becomes ARCHIVED; version v becomes ACTIVE.
ActivateVersion(p, v) ==
    LET last == FindFirstActive(p)
    IN [w \in VersionIds |->
          IF w = v THEN [versions[w] EXCEPT !.status = ACTIVE]
          ELSE IF last # 0 /\ w = last THEN [versions[w] EXCEPT !.status = ARCHIVED]
          ELSE versions[w]]

\* Step 6.1: the activation transaction commits.
ActivateOk(r) ==
    /\ run[r].pc = "activate"
    /\ LET p == run[r].providerId
           last == FindFirstActive(p)
       IN /\ versions' = ActivateVersion(p, run[r].version)
          /\ Set(r, [run[r] EXCEPT
                       !.pc = "flipNew",
                       !.lastActiveVersionId =
                           IF last # 0 /\ last # run[r].version THEN last ELSE 0])
    /\ UNCHANGED <<items, vectors, audit, faults>>

\* Step 6.1 throws: the transaction is rolled back, handleProcessFailure runs
\* and the vector rollback follows it.
ActivateFault(r) ==
    /\ run[r].pc = "activate"
    /\ CanFault
    /\ faults' = faults + 1
    /\ EnterFailure(r, [run[r] EXCEPT !.printed = Append(@, "activation")],
                    "Failed to finalize catalog version activation", "rollback")
    /\ UNCHANGED <<versions, items, vectors>>

\* catalogItemModel.updateMany({providerId, catalogVersionId}, {$set: {active}})
UpdateManyActive(p, v, flag) ==
    {IF it.providerId = p /\ it.catalogVersionId = v
     THEN [it EXCEPT !.active = flag] ELSE it : it \in items}

\* The success audit event that ends a run.
Succeed(r, rec) ==
    /\ Set(r, Settled(rec, "resolved"))
    /\ audit' = Log(r, CATALOG_PROCESSING_SUCCEEDED, NoReason)

\* Step 6.2: the new version's items are set active.  With no old version the
\* success event follows at once.
FlipNewOk(r) ==
    /\ run[r].pc = "flipNew"
    /\ items' = UpdateManyActive(run[r].providerId, run[r].version, TRUE)
    /\ IF run[r].lastActiveVersionId # 0
       THEN /\ Set(r, [run[r] EXCEPT !.pc = "flipOld"])
            /\ UNCHANGED audit
       ELSE Succeed(r, run[r])
    /\ UNCHANGED <<versions, vectors, faults>>

FlipNewFault(r) ==
    /\ run[r].pc = "flipNew"
    /\ CanFault
    /\ faults' = faults + 1
    /\ EnterFailure(r, [run[r] EXCEPT !.printed = Append(@, "activation")],
                    "Failed to finalize catalog version activation", "rollback")
    /\ UNCHANGED <<versions, items, vectors>>

\* The old version's items are set inactive.
FlipOldOk(r) ==
    /\ run[r].pc = "flipOld"
    /\ items' = UpdateManyActive(run[r].providerId, run[r].lastActiveVersionId, FALSE)
    /\ Set(r, [run[r] EXCEPT !.pc = "cleanup"])
    /\ UNCHANGED <<versions, vectors, audit, faults>>

FlipOldFault(r) ==
    /\ run[r].pc = "flipOld"
    /\ CanFault
    /\ faults' = faults + 1
    /\ EnterFailure(r, [run[r] EXCEPT !.printed = Append(@, "activation")],
                    "Failed to finalize catalog version activation", "rollback")
    /\ UNCHANGED <<versions, items, vectors>>

\* Step 6.3: the old version's vectors are deleted, then the success event.
CleanupOk(r) ==
    /\ run[r].pc = "cleanup"
    /\ vectors' = DeleteByVersion(run[r].providerId, run[r].lastActiveVersionId)
    /\ Succeed(r, run[r])
    /\ UNCHANGED <<versions, items, faults>>

\* Mutant of CleanupFault: the cleanup's error reaches the outer catch block.
CleanupFaultAborts(r) ==
    /\ run[r].pc = "cleanup"
    /\ CanFault
    /\ faults' = faults + 1
    /\ EnterFailure(r, [run[r] EXCEPT !.printed = Append(@, "activation")],
                    "Failed to finalize catalog version activation", "rollback")
    /\ UNCHANGED <<versions, items, vectors>>

\* Step 6.3 throws: the error is printed and the success event still follows.
CleanupFault(r) ==
    /\ run[r].pc = "cleanup"
    /\ CanFault
    /\ faults' = faults + 1
    /\ Succeed(r, [run[r] EXCEPT !.printed = Append(@, "cleanup")])
    /\ UNCHANGED <<versions, items, vectors>>

\* prisma.catalogProviderVersion.update({where: {id}, data: {status: FAILED}})
SetFailed(v) ==
    [w \in VersionIds |->
        IF w = v THEN [versions[w] EXCEPT !.status = FAILED] ELSE versions[w]]

\* handleProcessFailure, the status update.
HandleFailureUpdateOk(r) ==
    /\ run[r].pc = "hpf_update"
    /\ versions' = SetFailed(run[r].version)
    /\ Set(r, [run[r] EXCEPT !.pc = "hpf_delete"])
    /\ UNCHANGED <<items, vectors, audit, faults>>

\* The status update throws: nothing catches it and processCatalog rejects.
HandleFailureUpdateFault(r) ==
    /\ run[r].pc = "hpf_update"
    /\ CanFault
    /\ faults' = faults + 1
    /\ Set(r, Settled(run[r], "rejected"))
    /\ UNCHANGED <<versions, items, vectors, audit>>

\* catalogItemModel.deleteMany({providerId, catalogVersionId, active: false})
DeleteManyInactive(p, v) ==
    {it \in items :
        ~(it.providerId = p /\ it.catalogVersionId = v /\ it.active = FALSE)}

\* handleProcessFailure, the item cleanup; the handler returns to its caller.
HandleFailureDeleteOk(r) ==
    /\ run[r].pc = "hpf_delete"
    /\ items' = DeleteManyInactive(run[r].providerId, run[r].version)
    /\ IF run[r].then = "rollback"
       THEN Set(r, [run[r] EXCEPT !.pc = "rollback"])
       ELSE Set(r, Settled(run[r], "resolved"))
    /\ UNCHANGED <<versions, vectors, audit, faults>>

HandleFailureDeleteFault(r) ==
    /\ run[r].pc = "hpf_delete"
    /\ CanFault
    /\ faults' = faults + 1
    /\ Set(r, Settled(run[r], "rejected"))
    /\ UNCHANGED <<versions, items, vectors, audit>>

\* The activation catch block's rollback: the new version's vectors are deleted.
RollbackOk(r) ==
    /\ run[r].pc = "rollback"
    /\ vectors' = DeleteByVersion(run[r].providerId, run[r].version)
    /\ Set(r, Settled(run[r], "resolved"))
    /\ UNCHANGED <<versions, items, audit, faults>>

\* The rollback throws: the error is printed and the run ends.
RollbackFault(r) ==
    /\ run[r].pc = "rollback"
    /\ CanFault
    /\ faults' = faults + 1
    /\ Set(r, Settled([run[r] EXCEPT !.printed = Append(@, "rollback")],
                      "resolved"))
    /\ UNCHANGED <<versions, items, vectors, audit>>

\* ----------------------------------------------------------- specification
Step(r) ==
    \/ \E u \in Uploads : ProcessCatalog(r, u[1], u[2])
    \/ OpenVersionOk(r)
    \/ OpenVersionFault(r)
    \/ InsertItemsOk(r)
    \/ InsertItemsFault(r)
    \/ EmbedOk(r)
    \/ \E e \in EmbeddingFaults : EmbedFault(r, e)
    \/ UpsertBatchOk(r)
    \/ \E e \in PineconeFaults : UpsertBatchFault(r, e)
    \/ ActivateOk(r)
    \/ ActivateFault(r)
    \/ FlipNewOk(r)
    \/ FlipNewFault(r)
    \/ FlipOldOk(r)
    \/ FlipOldFault(r)
    \/ CleanupOk(r)
    \/ CleanupFault(r)
    \/ HandleFailureUpdateOk(r)
    \/ HandleFailureUpdateFault(r)
    \/ HandleFailureDeleteOk(r)
    \/ HandleFailureDeleteFault(r)
    \/ RollbackOk(r)
    \/ RollbackFault(r)

Next == \E r \in Runs : Step(r)

Spec == Init /\ [][Next]_vars

\* Uploads handled one after another: a run starts only when no other run is
\* in flight.
InFlight(r) == run[r].pc \notin {"idle", "resolved", "rejected"}

NextSeq ==
    \E r \in Runs :
        /\ run[r].pc = "idle" => \A q \in Runs : ~InFlight(q)
        /\ Step(r)

SpecSeq == Init /\ [][NextSeq]_vars

\* ------------------------------------------------------ FailedLoginService
\* Mutant of RecordFailure: the lock is set one failure late.
RecordFailureLate(att, email, now) ==
    LET count == att[email].count + 1
    IN [att EXCEPT ![email] =
           [count |-> count,
            lockedUntil |-> IF count > MAX_ATTEMPTS THEN now + LOCK_TIME
                            ELSE att[email].lockedUntil]]

\* recordFailure(email) at time now: the attempts map afterwards.
RecordFailure(att, email, now) ==
    LET count == att[email].count + 1
    IN [att EXCEPT ![email] =
           [count |-> count,
            lockedUntil |-> IF count >= MAX_ATTEMPTS THEN now + LOCK_TIME
                            ELSE att[email].lockedUntil]]

\* resetAttempts(email): the entry is deleted.
ResetAttempts(att, email) == [att EXCEPT ![email] = NoAttempt]

\* Mutant of IsLocked: the lock is over as soon as now reaches lockedUntil.
IsLockedExpiresEarly(att, email, now) ==
    LET attempt == att[email]
    IN IF attempt = NoAttempt \/ attempt.lockedUntil = 0
       THEN [locked |-> FALSE, remainingMs |-> 0, attempts |-> att]
       ELSE IF now >= attempt.lockedUntil
       THEN [locked |-> FALSE, remainingMs |-> 0,
             attempts |-> [att EXCEPT ![email] = NoAttempt]]
       ELSE [locked |-> TRUE, remainingMs |-> attempt.lockedUntil - now,
             attempts |-> att]

\* isLocked(email) at time now: what it returns, and the attempts map
\* afterwards (an expired entry is deleted).
IsLocked(att, email, now) ==
    LET attempt == att[email]
    IN IF attempt = NoAttempt \/ attempt.lockedUntil = 0
       THEN [locked |-> FALSE, remainingMs |-> 0, attempts |-> att]
       ELSE IF now > attempt.lockedUntil
       THEN [locked |-> FALSE, remainingMs |-> 0,
             attempts |-> [att EXCEPT ![email] = NoAttempt]]
       ELSE [locked |-> TRUE, remainingMs |-> attempt.lockedUntil - now,
             attempts |-> att]

\* The bookkeeping of the calls made for an email: a failure was recorded.
Recorded(h, email, now) == [h EXCEPT ![email] = [n |-> @.n + 1, at |-> now]]

\* MAX_ATTEMPTS failures had accumulated and the lock that the last of them
\* started has run out.
LockExpired(h, email, now) ==
    h[email].n >= MAX_ATTEMPTS /\ now > h[email].at + LOCK_TIME

\* The bookkeeping after isLocked(email) was called: an expired lock is over,
\* and the failures behind it no longer count.
Observed(h, email, now) ==
    IF LockExpired(h, email, now) THEN [h EXCEPT ![email] = NoHistory] ELSE h

\* Time passes.
Tick ==
    /\ clock < MaxClock
    /\ clock' = clock + 1
    /\ UNCHANGED <<attempts, history, active, tokenRecords, calls, response>>
    /\ UNCHANGED catalogVars

CallRecordFailure(email) ==
    /\ attempts[email].count < MaxFailures
    /\ attempts' = RecordFailure(attempts, email, clock)
    /\ history' = Recorded(history, email, clock)
    /\ UNCHANGED <<clock, active, tokenRecords, calls, response>>
    /\ UNCHANGED catalogVars

CallResetAttempts(email) ==
    /\ attempts' = ResetAttempts(attempts, email)
    /\ history' = [history EXCEPT ![email] = NoHistory]
    /\ UNCHANGED <<clock, active, tokenRecords, calls, response>>
    /\ UNCHANGED catalogVars

CallIsLocked(email) ==
    /\ attempts' = IsLocked(attempts, email, clock).attempts
    /\ history' = Observed(history, email, clock)
    /\ UNCHANGED <<clock, active, tokenRecords, calls, response>>
    /\ UNCHANGED catalogVars

\* FailedLoginService called in any order, for any email, as time passes.
NextLock ==
    \/ Tick
    \/ \E email \in Emails : CallRecordFailure(email)
    \/ \E email \in Emails : CallResetAttempts(email)
    \/ \E email \in Emails : CallIsLocked(email)

SpecLock == Init /\ [][NextLock]_vars

\* -------------------------------------------------------------- AuthService
\* prisma.user.findUnique({where: {email}}): the user's id, or "".
FindUserByEmail(email) ==
    IF \E u \in DOMAIN UserTable : UserTable[u].email = email
    THEN CHOOSE u \in DOMAIN UserTable : UserTable[u].email = email
    ELSE ""

\* The stored passwordHash of a user and bcrypt.compare(plain, hash).
PasswordHash(plain) == <<"bcrypt", plain>>
VerifyPassword(hash, plain) == hash = PasswordHash(plain)

\* bcrypt.hash(token) and bcrypt.compare(token, tokenHash).
TokenHash(token) == <<"bcrypt", token>>
CompareToken(token, hash) == hash = TokenHash(token)

\* jwtService.verifyAsync(token, {secret: refreshSecret}): the signature is
\* ours and the token's exp has not been reached.
JwtVerify(token, now) == token.sig = "good" /\ now < token.exp

TokenIds == 1..Len(tokenRecords)

\* prisma.refreshToken.findUnique({where: {jti}}): the row's id, or 0.
FindUniqueJti(jti) ==
    IF \E k \in TokenIds : tokenRecords[k].jti = jti
    THEN CHOOSE k \in TokenIds : tokenRecords[k].jti = jti
    ELSE 0

\* crypto.randomUUID(): a jti no row, no replacedBy and no call in flight holds.
RandomUUID ==
    LET used == {tokenRecords[k].jti : k \in TokenIds}
                  \cup {tokenRecords[k].replacedBy : k \in TokenIds}
                  \cup {calls[c].newJti : c \in Calls}
    IN CHOOSE j \in 1..(3 * MaxTokens + MaxCalls) : j \notin used

\* The refresh token generateRefreshToken signs for a user at time now.
SignRefreshToken(userId, jti, now) ==
    [sub |-> userId, jti |-> jti, exp |-> now + REFRESH_TTL, sig |-> "good"]

\* The row generateRefreshToken creates for the token.  returned tells
\* whether the token has been handed to the client, and exchangeOf the row of
\* the token a refreshToken call presented to get it (0 for a signIn).
TokenRecord(token, now) ==
    [userId |-> token.sub, jti |-> token.jti, tokenHash |-> TokenHash(token),
     expiresAt |-> now + REFRESH_TTL, revoked |-> FALSE, replacedBy |-> 0,
     returned |-> FALSE, exchangeOf |-> 0]

\* The token whose row is row k, as its holder presents it.
TokenOf(k) ==
    [sub |-> tokenRecords[k].userId, jti |-> tokenRecords[k].jti,
     exp |-> tokenRecords[k].expiresAt, sig |-> "good"]

\* The tokens a client can present: those handed out, and a forged one.
PresentableTokens ==
    {TokenOf(k) : k \in {k \in TokenIds : tokenRecords[k].returned}}
        \cup {ForgedToken}

\* Mutant of VerifyAndGetRefreshToken: the revoked flag is not looked at.
VerifyAndGetRefreshTokenRevokedToo(token, now) ==
    IF ~JwtVerify(token, now) THEN 0
    ELSE LET k == FindUniqueJti(token.jti)
         IN IF k = 0 \/ tokenRecords[k].expiresAt < now THEN 0
            ELSE IF ~CompareToken(token, tokenRecords[k].tokenHash) THEN 0
            ELSE k

\* verifyAndGetRefreshToken: the id of the token's row, or 0 when it throws
\* UnauthorizedException.
VerifyAndGetRefreshToken(token, now) ==
    IF ~JwtVerify(token, now) THEN 0
    ELSE LET k == FindUniqueJti(token.jti)
         IN IF k = 0 \/ tokenRecords[k].revoked \/ tokenRecords[k].expiresAt < now
            THEN 0
            ELSE IF ~CompareToken(token, tokenRecords[k].tokenHash) THEN 0
            ELSE k

\* Calls in flight that go on to create a RefreshToken row.
Creating == {c \in Calls : calls[c].pc # "idle"}
RoomForToken == Len(tokenRecords) + Cardinality(Creating) < MaxTokens

\* A call moves on; when it has ended (pc "idle") its slot is free again and
\* what it returned or threw is the response.
SetCall(c, rec) ==
    IF rec.pc = "idle"
    THEN calls' = [calls EXCEPT ![c] = IdleCall] /\ response' = rec
    ELSE calls' = [calls EXCEPT ![c] = rec] /\ UNCHANGED response

\* The call returns or throws: result is "ok" or the exception's name.
Done(rec, result, log) ==
    [rec EXCEPT !.pc = "idle", !.result = result, !.log = rec.log \o log,
                !.tokenRecord = 0, !.newJti = 0]

\* Slot c takes the next request: slots are taken in order.
Free(c) ==
    /\ calls[c].pc = "idle"
    /\ \A d \in Calls : d < c => calls[d].pc # "idle"

\* Mutant of CheckAccountLockStatus: the lock is not enforced.
CheckAccountLockStatusOpen(att, email, now) ==
    [IsLocked(att, email, now) EXCEPT !.locked = FALSE]

\* checkAccountLockStatus: isLocked's answer; locked means ACCOUNT_LOCKED is
\* logged and TooManyRequestException thrown.
CheckAccountLockStatus(att, email, now) == IsLocked(att, email, now)

\* signIn is called: the lock check, up to the await of the user lookup.
SignIn(c, email, password) ==
    /\ Free(c)
    /\ LET status == CheckAccountLockStatus(attempts, email, clock)
           call == [IdleCall EXCEPT !.op = "signIn", !.email = email,
                                    !.password = password]
       IN /\ attempts' = status.attempts
          /\ history' = Observed(history, email, clock)
          /\ IF status.locked
             THEN SetCall(c, Done(call, "TooManyRequestException",
                                  <<"ACCOUNT_LOCKED">>))
             ELSE /\ RoomForToken
                  /\ SetCall(c, [call EXCEPT !.pc = "signIn_lookup"])
    /\ UNCHANGED <<clock, active, tokenRecords>>
    /\ UNCHANGED catalogVars

\* signIn after the lock check: the user lookup, the password check, and
\* either the recorded failure or the tokens and the reset.
SignInFinish(c) ==
    /\ calls[c].pc = "signIn_lookup"
    /\ LET email == calls[c].email
           user == FindUserByEmail(email)
       IN IF \/ user = ""
             \/ user \notin active
             \/ ~VerifyPassword(PasswordHash(UserTable[user].password),
                                calls[c].password)
          THEN /\ attempts[email].count < MaxFailures
               /\ attempts' = RecordFailure(attempts, email, clock)
               /\ history' = Recorded(history, email, clock)
               /\ SetCall(c, Done(calls[c], "UnauthorizedException",
                                  <<"LOGIN_FAILED">>))
               /\ UNCHANGED tokenRecords
          ELSE LET token == SignRefreshToken(user, RandomUUID, clock)
               IN /\ tokenRecords' = Append(tokenRecords,
                         [TokenRecord(token, clock) EXCEPT !.returned = TRUE])
                  /\ attempts' = ResetAttempts(attempts, email)
                  /\ history' = [history EXCEPT ![email] = NoHistory]
                  /\ SetCall(c, Done([calls[c] EXCEPT !.refreshToken = token,
                                                      !.accessToken = user],
                                     "ok",
                                     <<"ACCOUNT_UNLOCKED", "LOGIN_SUCCESS">>))
    /\ UNCHANGED <<clock, active>>
    /\ UNCHANGED catalogVars

\* refreshToken is called: verifyAndGetRefreshToken, and the new jti.
RefreshToken(c, oldToken) ==
    /\ Free(c)
    /\ LET k == VerifyAndGetRefreshToken(oldToken, clock)
           call == [IdleCall EXCEPT !.op = "refreshToken", !.oldToken = oldToken]
       IN IF k = 0
          THEN SetCall(c, Done(call, "UnauthorizedException", <<>>))
          ELSE /\ RoomForToken
               /\ SetCall(c, [call EXCEPT !.pc = "refresh_revoke",
                                          !.tokenRecord = k,
                                          !.newJti = RandomUUID])
    /\ UNCHANGED <<clock, attempts, history, active, tokenRecords>>
    /\ UNCHANGED catalogVars

\* prisma.refreshToken.update: the presented token's row is revoked.
RefreshRevoke(c) ==
    /\ calls[c].pc = "refresh_revoke"
    /\ tokenRecords' = [tokenRecords EXCEPT ![calls[c].tokenRecord] =
                           [@ EXCEPT !.revoked = TRUE,
                                     !.replacedBy = calls[c].newJti]]
    /\ SetCall(c, [calls[c] EXCEPT !.pc = "refresh_create"])
    /\ UNCHANGED <<clock, attempts, history, active>>
    /\ UNCHANGED catalogVars

\* generateRefreshToken(userId, ip, ua, newJti): the new token and its row.
RefreshCreate(c) ==
    /\ calls[c].pc = "refresh_create"
    /\ LET token == SignRefreshToken(tokenRecords[calls[c].tokenRecord].userId,
                                     calls[c].newJti, clock)
       IN /\ tokenRecords' = Append(tokenRecords,
                 [TokenRecord(token, clock) EXCEPT
                     !.exchangeOf = calls[c].tokenRecord])
          /\ SetCall(c, [calls[c] EXCEPT !.pc = "refresh_user",
                                         !.refreshToken = token])
    /\ UNCHANGED <<clock, attempts, history, active>>
    /\ UNCHANGED catalogVars

\* The relational store throws in the update or the create: the call ends
\* with the error and returns no token.
RefreshFault(c) ==
    /\ calls[c].pc \in {"refresh_revoke", "refresh_create"}
    /\ SetCall(c, Done([calls[c] EXCEPT !.refreshToken = NoToken],
                       "InternalServerErrorException", <<>>))
    /\ UNCHANGED <<clock, attempts, history, active, tokenRecords>>
    /\ UNCHANGED catalogVars

\* findUserById and the access token: the tokens are returned, or the user is
\* gone or inactive and UnauthorizedException is thrown.
RefreshFinish(c) ==
    /\ calls[c].pc = "refresh_user"
    /\ LET user == tokenRecords[calls[c].tokenRecord].userId
           new == FindUniqueJti(calls[c].newJti)
       IN IF user \notin DOMAIN UserTable \/ user \notin active
          THEN /\ SetCall(c, Done([calls[c] EXCEPT !.refreshToken = NoToken],
                                  "UnauthorizedException", <<>>))
               /\ UNCHANGED tokenRecords
          ELSE /\ SetCall(c, Done([calls[c] EXCEPT !.accessToken = user], "ok",
                                  <<"REFRESH_TOKEN_ISSUED">>))
               /\ tokenRecords' = [tokenRecords EXCEPT ![new].returned = TRUE]
    /\ UNCHANGED <<clock, attempts, history, active>>
    /\ UNCHANGED catalogVars

\* UsersService.deactivateUser / reactivateUser.
DeactivateUser(u) ==
    /\ u \in active
    /\ active' = active \ {u}
    /\ UNCHANGED <<clock, attempts, history, tokenRecords, calls, response>>
    /\ UNCHANGED catalogVars

ReactivateUser(u) ==
    /\ u \notin active
    /\ active' = active \cup {u}
    /\ UNCHANGED <<clock, attempts, history, tokenRecords, calls, response>>
    /\ UNCHANGED catalogVars

SignInStep(c) ==
    \/ \E email \in Emails, password \in Passwords : SignIn(c, email, password)
    \/ SignInFinish(c)

\* The sign-in requests, interleaved at their awaits, while time passes and
\* the user is deactivated and reactivated.
NextSignIn ==
    \/ Tick
    \/ \E u \in DOMAIN UserTable : DeactivateUser(u)
    \/ \E u \in DOMAIN UserTable : ReactivateUser(u)
    \/ \E c \in Calls : SignInStep(c)

SpecSignIn == Init /\ [][NextSignIn]_vars

RefreshStep(c) ==
    \/ \E u \in DOMAIN UserTable :
          SignIn(c, UserTable[u].email, UserTable[u].password)
    \/ SignInFinish(c)
    \/ \E t \in PresentableTokens : RefreshToken(c, t)
    \/ RefreshRevoke(c)
    \/ RefreshCreate(c)
    \/ RefreshFault(c)
    \/ RefreshFinish(c)

\* Users signing in and exchanging refresh tokens, one request after another:
\* a call starts only when no other call is in flight.
NextRefreshSeq ==
    \/ Tick
    \/ \E u \in DOMAIN UserTable : DeactivateUser(u)
    \/ \E u \in DOMAIN UserTable : ReactivateUser(u)
    \/ \E c \in Calls :
          /\ calls[c].pc = "idle" => \A d \in Calls : calls[d].pc = "idle"
          /\ RefreshStep(c)

SpecRefreshSeq == Init /\ [][NextRefreshSeq]_vars

\* The same requests arriving at any time: calls interleave at their awaits.
NextRefresh ==
    \/ Tick
    \/ \E u \in DOMAIN UserTable : DeactivateUser(u)
    \/ \E u \in DOMAIN UserTable : ReactivateUser(u)
    \/ \E c \in Calls : RefreshStep(c)

SpecRefresh == Init /\ [][NextRefresh]_vars

\* ------------------------------------------------------ error classification
\* The texts getEmbeddings is called with, and text.trim().
Texts == {"", "  ", "item first tools"}
Trim(text) == IF text = "  " THEN "" ELSE text

\* What client.embeddings.create does: it resolves with an embedding, resolves
\* with a response that holds none, or throws a provider error.
ProviderOutcomes ==
    {[kind |-> k, error |-> NoError] : k \in {"embedding", "invalid"}}
        \cup {[kind |-> "error", error |-> e] : e \in EmbeddingErrors}

Exception(message, retryable, statusCode) ==
    [kind |-> "exception", retryable |-> retryable, statusCode |-> statusCode,
     message |-> message]

\* getEmbeddings({text}): the embedding, or the EmbeddingGenerationException
\* thrown.  The exception for an invalid response is thrown inside the try
\* block and caught by its catch: it carries no status, code or response
\* property, so it is classified like an error without them.
GetEmbeddings(text, outcome) ==
    IF Trim(text) = ""
    THEN Exception("Embedding input text is empty", FALSE, 400)
    ELSE IF outcome.kind = "embedding"
    THEN [kind |-> "embedding", retryable |-> FALSE, statusCode |-> 0,
          message |-> ""]
    ELSE IF outcome.kind = "invalid"
    THEN Exception("Invalid embedding response structure",
                   GetEmbeddingsRetryable(NoError), NoError.status)
    ELSE Exception("provider error", GetEmbeddingsRetryable(outcome.error),
                   outcome.error.status)

\* The provider is called only with a text that is not blank.
NotCalled == [kind |-> "none", error |-> NoError]

CallGetEmbeddings(text, outcome) ==
    /\ outcome = NotCalled <=> Trim(text) = ""
    /\ embeddingCall' = [text |-> text, outcome |-> outcome,
                         result |-> GetEmbeddings(text, outcome)]
    /\ UNCHANGED pineconeCall
    /\ UNCHANGED <<versions, items, vectors, audit, run, faults>>
    /\ UNCHANGED authVars

\* handlePineconeError(error, operation) throws VectorDbException.
CallHandlePineconeError(e) ==
    /\ pineconeCall' = [error |-> e, called |-> TRUE,
                        retryable |-> HandlePineconeErrorRetryable(e)]
    /\ UNCHANGED embeddingCall
    /\ UNCHANGED <<versions, items, vectors, audit, run, faults>>
    /\ UNCHANGED authVars

\* The two services called with any input and any error, in any order.
NextClassify ==
    \/ \E text \in Texts, outcome \in ProviderOutcomes \cup {NotCalled} :
          CallGetEmbeddings(text, outcome)
    \/ \E e \in PineconeErrors : CallHandlePineconeError(e)

SpecClassify == Init /\ [][NextClassify]_vars

\* ------------------------------------------------------------------ claims
VersionsOf(p) == {v \in VersionIds : versions[v].providerId = p}
ItemsOf(v) == {it \in items : it.catalogVersionId = v}
TaggedVectors(v) == {id \in VectorIds : vectors[id].catalogVersionId = v}
IsSettled(r) == run[r].pc \in {"resolved", "rejected"}
Success == [action |-> CATALOG_PROCESSING_SUCCEEDED, reason |-> NoReason]

\* C1: in every reachable state, whatever the interleaving of the runs and
\* wherever they fail, at most one version row of a provider is ACTIVE.
C1_AtMostOneActive ==
    \A p \in ProviderIds :
        Cardinality({v \in VersionsOf(p) : versions[v].status = ACTIVE}) <= 1

\* C1 witness: an activation went through over an older ACTIVE version.
C1_Witness ==
    \E v, w \in VersionIds :
        /\ versions[v].providerId = versions[w].providerId
        /\ versions[v].status = ARCHIVED
        /\ versions[w].status = ACTIVE

\* C2: at every observation point an item is active exactly when its
\* catalogVersionId is the id of its provider's current ACTIVE version.
C2_ActiveIffCurrentVersion ==
    \A it \in items :
        it.active <=> (it.catalogVersionId = FindFirstActive(it.providerId))

\* C2 read only at the most favourable observation points, those where no run
\* is in flight: the same equivalence between uploads.
C2_ActiveIffCurrentVersionBetweenRuns ==
    (\A r \in Runs : ~InFlight(r)) => C2_ActiveIffCurrentVersion

\* C3: a status changes only along PROCESSING->ACTIVE, PROCESSING->FAILED and
\* ACTIVE->ARCHIVED, the last only in the step that makes a newer version of
\* the same provider ACTIVE; nothing leaves ARCHIVED or FAILED and an ACTIVE
\* version is never set FAILED.
C3_StatusTransitions ==
    [][\A v \in VersionIds :
          LET a == versions[v].status
              b == versions'[v].status
          IN a # b =>
               /\ <<a, b>> \in {<<PROCESSING, ACTIVE>>, <<PROCESSING, FAILED>>,
                               <<ACTIVE, ARCHIVED>>}
               /\ <<a, b>> = <<ACTIVE, ARCHIVED>> =>
                     \E w \in VersionIds :
                         /\ w > v
                         /\ versions[w].providerId = versions[v].providerId
                         /\ versions[w].status # ACTIVE
                         /\ versions'[w].status = ACTIVE]_vars

\* C4, the rows: the version numbers of a provider's rows are unique and
\* strictly increasing in creation order.
C4_NumbersIncrease ==
    \A v, w \in VersionIds :
        (versions[v].providerId = versions[w].providerId /\ v < w)
            => versions[v].versionNumber < versions[w].versionNumber

\* C4, the creation: a new row is PROCESSING and numbered one more than the
\* provider's ACTIVE version, or 1 when there is none.
C4_CreatedRow ==
    Len(versions') # Len(versions) =>
        /\ Len(versions') = Len(versions) + 1
        /\ LET new == versions'[Len(versions')]
               act == {v \in VersionsOf(new.providerId) : versions[v].status = ACTIVE}
           IN /\ new.status = PROCESSING
              /\ \A v \in VersionIds : versions'[v] = versions[v]
              /\ IF act = {} THEN new.versionNumber = 1
                 ELSE \E v \in act : new.versionNumber = versions[v].versionNumber + 1

\* C4: every version is created PROCESSING with the number after the ACTIVE
\* version's (1 without one), and a provider's numbers are unique and strictly
\* increasing in creation order.
C4_VersionNumbers == [](C4_NumbersIncrease) /\ [][C4_CreatedRow]_vars

\* C4 witness: a second version of a provider was opened over an ACTIVE one.
C4_Witness ==
    \E v, w \in VersionIds :
        /\ versions[v].providerId = versions[w].providerId
        /\ versions[v].versionNumber = 1
        /\ versions[w].versionNumber = 2

\* C5: once a run whose version ended FAILED has finished, with the Failure
\* Handler and any rollback done (none of them threw), no item of that version
\* with active=false and no vector tagged with it is left.
C5_FailedVersionLeavesNothing ==
    \A r \in Runs :
        (/\ run[r].pc = "resolved"
         /\ run[r].version # 0
         /\ versions[run[r].version].status = FAILED
         /\ \A k \in 1..Len(run[r].printed) : run[r].printed[k] # "rollback")
        => /\ {it \in ItemsOf(run[r].version) : ~it.active} = {}
           /\ TaggedVectors(run[r].version) = {}

\* A run that ended with the success event, printed no error, and is the
\* latest upload.
SucceededLast(r) ==
    /\ run[r].pc = "resolved"
    /\ audit[r] = <<Success>>
    /\ run[r].printed = <<>>
    /\ IF r = MaxRuns THEN TRUE ELSE run[r + 1].pc = "idle"

\* C6: at the end of a run over N valid rows that met no failure the new
\* version is ACTIVE, the previously ACTIVE one ARCHIVED, exactly N items of
\* the new version are active, none of the old one, and no vector tagged with
\* the old version is left.
C6_SuccessfulRun ==
    \A r \in Runs :
        SucceededLast(r) =>
            LET new == run[r].version
                old == run[r].lastActiveVersionId
            IN /\ versions[new].status = ACTIVE
               /\ \A w \in VersionsOf(run[r].providerId) :
                     w # new => versions[w].status # ACTIVE
               /\ Cardinality({it \in ItemsOf(new) : it.active})
                     = Len(CsvFiles[run[r].filePath])
               /\ old # 0 =>
                     /\ versions[old].status = ARCHIVED
                     /\ {it \in ItemsOf(old) : it.active} = {}
                     /\ TaggedVectors(old) = {}

\* C6 witness: a successful run that replaced an older version which had
\* items and vectors.
C6_Witness ==
    \E r \in Runs :
        /\ SucceededLast(r)
        /\ run[r].lastActiveVersionId # 0
        /\ ItemsOf(run[r].lastActiveVersionId) # {}

\* A version readers can use: it has items, all of them active, and each
\* item's vector is in the index tagged with the version.
Live(vs, its, vecs, v) ==
    LET mine == {it \in its : it.catalogVersionId = v}
    IN /\ mine # {}
       /\ \A it \in mine :
             /\ it.active
             /\ vecs[<<it.providerId, it.sku>>].catalogVersionId = v

\* C7: during and after any run for a provider that had a live version, some
\* version of the provider has its items active and its vectors in the index.
C7_NoGap ==
    [][\A p \in ProviderIds :
          (\E v \in VersionsOf(p) : Live(versions, items, vectors, v))
          => (\E v \in 1..Len(versions') :
                 /\ versions'[v].providerId = p
                 /\ Live(versions', items', vectors', v))]_vars

\* The failure event a run logged last, if any.
LastReason(r) ==
    IF audit[r] = <<>> THEN "" ELSE audit[r][Len(audit[r])].reason.msg

\* C8: an embedding call and the vector upsert are attempted at most
\* MAX_RETRIES times, and after a non-retryable error no further attempt is
\* made, so that such an error on the first attempt leaves exactly 1 attempt.
C8_RetryBounds ==
    \A r \in Runs :
        /\ run[r].calls <= MAX_RETRIES
        /\ run[r].error = "fatal" =>
              /\ run[r].pc \notin {"embed", "upsert"}
              /\ LastReason(r) = "Non-retryable OpenAI error"
                    => run[r].calls = run[r].attempt
              /\ LastReason(r) = "Non-retryable Pinecone error"
                    => run[r].calls = run[r].upsertAttempt
              /\ LastReason(r) \in {"Non-retryable OpenAI error",
                                   "Non-retryable Pinecone error"}

\* C8 witness: a call was attempted MAX_RETRIES times and gave up.
C8_Witness ==
    \E r \in Runs :
        /\ run[r].calls = MAX_RETRIES
        /\ run[r].error = "retryable"
        /\ run[r].pc = "hpf_update"

\* C8 second witness: a non-retryable error on the first attempt.
C8_WitnessFatal ==
    \E r \in Runs :
        run[r].error = "fatal" /\ run[r].calls = 1 /\ run[r].pc = "hpf_update"

\* C9 without its last clause where the Failure Handler itself threw: what is
\* left of C9_EmbeddingGate when only runs whose promise resolved are asked to
\* end FAILED.
C9_EmbeddingGateHandlerReturned ==
    \A r \in Runs :
        (\E k \in 1..Len(audit[r]) :
            audit[r][k].reason.msg \in
                {"Non-retryable OpenAI error",
                 "Failed to generate embeddings after 3 attempts"})
        => /\ run[r].pc \in {"hpf_update", "hpf_delete", "resolved", "rejected"}
           /\ versions[run[r].version].status # ACTIVE
           /\ TaggedVectors(run[r].version) = {}
           /\ run[r].pc = "resolved" => versions[run[r].version].status = FAILED

EmbeddingAborted(r) ==
    \E k \in 1..Len(audit[r]) :
        audit[r][k].reason.msg \in
            {"Non-retryable OpenAI error",
             "Failed to generate embeddings after 3 attempts"}

\* C9: the upsert starts only after every item is embedded, the version is
\* activated only after all its vectors are upserted, and a run whose
\* embedding aborted embeds no further item, publishes no vector of its
\* version and ends with the version FAILED, never ACTIVE.
C9_EmbeddingGate ==
    \A r \in Runs :
        /\ run[r].pc = "upsert" => Len(run[r].vectorDbItems) = Len(run[r].rows)
        /\ run[r].pc = "activate" =>
              \A i \in 1..Len(run[r].rows) :
                  vectors[<<run[r].providerId, run[r].rows[i].sku>>].catalogVersionId
                      = run[r].version
        /\ EmbeddingAborted(r) =>
              /\ run[r].pc \in {"hpf_update", "hpf_delete", "resolved", "rejected"}
              /\ versions[run[r].version].status # ACTIVE
              /\ TaggedVectors(run[r].version) = {}
              /\ IsSettled(r) => versions[run[r].version].status = FAILED

\* The uploads validateCatalogPreconditions rejects, with the reason of each.
ExpectedRejection ==
    [u \in {<<"px", "a.csv">>, <<"p1", "empty.csv">>, <<"p1", "nosku.csv">>,
            <<"p1", "badcode.csv">>} |->
        CASE u = <<"px", "a.csv">> -> Reason("Provider not found")
          [] u = <<"p1", "empty.csv">> -> Reason("CSV file is empty or invalid")
          [] u = <<"p1", "nosku.csv">> ->
                [msg |-> "Missing required field", field |-> "sku", sku |-> ""]
          [] u = <<"p1", "badcode.csv">> ->
                [msg |-> "Invalid provider code", field |-> "Beta", sku |-> "B"]]

Upload(rec) == <<rec.providerId, rec.filePath>>

\* C10, afterwards: a rejected upload has opened no version, has logged exactly
\* one failure event carrying the reason, and its run is over.
C10_Rejected ==
    \A r \in Runs :
        (run[r].pc # "idle" /\ Upload(run[r]) \in DOMAIN ExpectedRejection) =>
            /\ IsSettled(r)
            /\ run[r].version = 0
            /\ audit[r] = <<[action |-> CATALOG_PROCESSING_FAILED,
                            reason |-> ExpectedRejection[Upload(run[r])]]>>

\* C10, the step: handling a rejected upload writes no version, item or vector.
C10_RejectionStep ==
    \A r \in Runs :
        (/\ run[r].pc = "idle"
         /\ run'[r].pc # "idle"
         /\ Upload(run'[r]) \in DOMAIN ExpectedRejection)
        => UNCHANGED <<versions, items, vectors>>

\* C10: when validation rejects an upload no version row is created, no item
\* or vector is written, exactly one CATALOG_PROCESSING_FAILED event with the
\* reason is logged and the provider's versions are unchanged.
C10_PreconditionRejection == [](C10_Rejected) /\ [][C10_RejectionStep]_vars

\* C10 witness: an upload with a row missing its sku was rejected while the
\* provider had an ACTIVE version.
C10_Witness ==
    \E r \in Runs :
        /\ run[r].pc = "rejected"
        /\ run[r].filePath = "nosku.csv"
        /\ FindFirstActive(run[r].providerId) # 0

\* The scheduler keeps running a processCatalog that has started: each of its
\* awaited calls returns or throws.
Continue(r) == run[r].pc # "idle" /\ Step(r)

SpecFair == Spec /\ \A r \in Runs : WF_vars(Continue(r))

\* C11, termination alone: every run that has started settles.
C11_Terminates == \A r \in Runs : (run[r].pc # "idle") ~> IsSettled(r)

\* C11: a run that has created a version row never ends with that version
\* left PROCESSING, whatever the stores and providers throw along the way.
C11_NeverLeftProcessing ==
    \A r \in Runs :
        (IsSettled(r) /\ run[r].version # 0)
            => versions[run[r].version].status # PROCESSING

DuplicateVersion ==
    [action |-> CATALOG_PROCESSING_FAILED,
     reason |-> Reason("Duplicate version number")]

\* C12, the rows: a (providerId, versionNumber) pair names one row, and a run
\* whose insert hit the unique constraint has ended, was not retried, holds no
\* version and logged exactly the one CATALOG_PROCESSING_FAILED event, while
\* the run that won the number holds the row.
C12_Conflict ==
    /\ \A v, w \in VersionIds :
          (/\ versions[v].providerId = versions[w].providerId
           /\ versions[v].versionNumber = versions[w].versionNumber) => v = w
    /\ \A r \in Runs :
          (\E k \in 1..Len(audit[r]) : audit[r][k] = DuplicateVersion) =>
              /\ run[r].pc = "resolved"
              /\ run[r].version = 0
              /\ audit[r] = <<DuplicateVersion>>
              /\ \E q \in Runs :
                    /\ q # r
                    /\ run[q].providerId = run[r].providerId
                    /\ run[q].version # 0

\* C12, the step: the insert that fails on the constraint ends the run and
\* writes no version row, item or vector.
C12_ConflictStep ==
    \A r \in Runs :
        (run[r].pc = "open" /\ audit'[r] = <<DuplicateVersion>>) =>
            /\ run'[r].pc = "resolved"
            /\ UNCHANGED <<versions, items, vectors>>

\* C12: of two runs of a provider where the second opens its version before
\* the first has activated, one creates the version with the number; the other
\* gets a later number or fails on the unique constraint, and then it is not
\* retried, logs one CATALOG_PROCESSING_FAILED event and writes nothing.
C12_ConcurrentOpen == [](C12_Conflict) /\ [][C12_ConflictStep]_vars

\* C12 witness: a run lost the number to a run that is still processing.
C12_Witness ==
    \E r, q \in Runs :
        /\ audit[r] = <<DuplicateVersion>>
        /\ run[q].version # 0
        /\ versions[run[q].version].status = PROCESSING
        /\ InFlight(q)

\* Run r, holding a version, ends in this step (or goes on to the vector
\* rollback) without having logged the success event.
EndsFailing(r) ==
    /\ run[r].version # 0
    /\ run[r].pc \notin {"resolved", "rejected", "rollback"}
    /\ run'[r].pc \in {"resolved", "rejected", "rollback"}
    /\ audit'[r][Len(audit'[r])] # Success

\* What the Failure Handler leaves when a failing run ends: a
\* CATALOG_PROCESSING_FAILED event with the reason, the version FAILED, and no
\* item of the version with active=false.
HandledFailure(r) ==
    LET last == audit'[r][Len(audit'[r])]
        v == run[r].version
    IN /\ last.action = CATALOG_PROCESSING_FAILED
       /\ last.reason.msg # ""
       /\ versions'[v].status = FAILED
       /\ {it \in items' : it.catalogVersionId = v /\ ~it.active} = {}

\* A version becomes FAILED only in the Failure Handler of the run holding it.
FailedOnlyByHandler ==
    \A v \in VersionIds :
        (versions[v].status # FAILED /\ versions'[v].status = FAILED) =>
            \E r \in Runs :
                /\ run[r].version = v
                /\ run[r].pc = "hpf_update"
                /\ run'[r].pc = "hpf_delete"
                /\ audit[r][Len(audit[r])].action = CATALOG_PROCESSING_FAILED

\* C13: every error that ends a run after its version row exists ends it
\* through the Failure Handler, which logs CATALOG_PROCESSING_FAILED with the
\* reason, sets the version FAILED and deletes its items with active=false;
\* nothing else sets a version FAILED.
C13_FailureHandler ==
    [][/\ \A r \in Runs : EndsFailing(r) => HandledFailure(r)
       /\ FailedOnlyByHandler]_vars

\* C13 for the runs whose Failure Handler returned (its own store calls did
\* not throw).
C13_FailureHandlerReturned ==
    [][/\ \A r \in Runs :
             (EndsFailing(r) /\ run'[r].pc # "rejected") => HandledFailure(r)
       /\ FailedOnlyByHandler]_vars

\* C14, the waits: while a call is being retried fewer than 3 attempts have
\* failed, the last one with a retryable error, and the wait before the retry
\* was 500 ms after the first failure and 1000 ms after the second.
C14_Waits ==
    \A r \in Runs :
        /\ (run[r].pc = "embed" /\ run[r].attempt > 0) =>
              /\ run[r].attempt < 3
              /\ run[r].error = "retryable"
              /\ run[r].delay = IF run[r].attempt = 1 THEN 500 ELSE 1000
        /\ (run[r].pc = "upsert" /\ run[r].upsertAttempt > 0) =>
              /\ run[r].upsertAttempt < 3
              /\ run[r].delay = IF run[r].upsertAttempt = 1 THEN 500 ELSE 1000

\* C14, the steps: a failed attempt that is retried stays on the same call
\* and logs nothing; an attempt that succeeds moves on to the next item or
\* stage; the Failure Handler is entered from a retry loop only by a failed
\* attempt that was non-retryable or the third.
C14_RetrySteps ==
    \A r \in Runs :
        LET a == run[r]
            b == run'[r]
        IN /\ (a.pc = "embed" /\ b.pc = "embed" /\ b.attempt > a.attempt) =>
                 /\ b.idx = a.idx
                 /\ b.vectorDbItems = a.vectorDbItems
                 /\ audit'[r] = audit[r]
           /\ (a.pc = "embed" /\ a # b /\ b.attempt <= a.attempt) =>
                 /\ Len(b.vectorDbItems) = a.idx
                 /\ audit'[r] = audit[r]
                 /\ \/ b.pc = "embed" /\ b.idx = a.idx + 1 /\ b.attempt = 0
                    \/ b.pc = "upsert" /\ a.idx = Len(a.rows)
           /\ (a.pc = "upsert" /\ b.pc = "upsert"
                   /\ b.upsertAttempt > a.upsertAttempt) =>
                 /\ b.batch = 0
                 /\ b.vectorDbItems = a.vectorDbItems
                 /\ audit'[r] = audit[r]
           /\ (a.pc = "upsert" /\ a # b /\ b.upsertAttempt = a.upsertAttempt) =>
                 /\ audit'[r] = audit[r]
                 /\ b.pc \in {"upsert", "activate"}
           /\ (a.pc \in {"embed", "upsert"} /\ b.pc = "hpf_update") =>
                 /\ b.attempt + b.upsertAttempt = a.attempt + a.upsertAttempt + 1
                 /\ b.error = "fatal" \/ b.attempt = 3 \/ b.upsertAttempt = 3

C14_WitnessUpsert ==
    \E r \in Runs :
        /\ run[r].pc = "activate"
        /\ run[r].upsertAttempt = 2
        /\ audit[r] = <<>>

\* C16, the answer: isLocked(email) says locked exactly when at least
\* MAX_ATTEMPTS failures have accumulated for the email since its last reset
\* or expiry cleanup and the lock has not run out.
C16_LockedIff ==
    \A email \in Emails :
        IsLocked(attempts, email, clock).locked
            <=> (/\ history[email].n >= MAX_ATTEMPTS
                 /\ clock <= history[email].at + LOCK_TIME)

\* C16, the other emails: a call made for one email changes neither the entry
\* nor the answer of another email.
C16_OtherEmails ==
    \A email \in Emails :
        history'[email] = history[email] =>
            /\ attempts'[email] = attempts[email]
            /\ clock' = clock =>
                  IsLocked(attempts', email, clock').locked
                      = IsLocked(attempts, email, clock).locked

\* C16: isLocked reports locked=true exactly when MAX_ATTEMPTS recordFailure
\* calls have accumulated for that email since its last resetAttempts or
\* expiry cleanup and the lock has not expired, and failures recorded for one
\* email never change the result for another.
C16_IsLocked == [](C16_LockedIff) /\ [][C16_OtherEmails]_vars

\* C16 witness: one email is locked while another, with fewer failures
\* recorded, is not.
C16_Witness ==
    \E e, f \in Emails :
        /\ IsLocked(attempts, e, clock).locked
        /\ history[f].n > 0
        /\ ~IsLocked(attempts, f, clock).locked

\* C17, the answer in time: for an email locked at time t (the time of the
\* failure that set the lock), isLocked returns locked=true and
\* remainingMs = t + LOCK_TIME - now while now <= t + LOCK_TIME and leaves the
\* entry; once now > t + LOCK_TIME it returns {locked: false, remainingMs: 0}
\* and removes the entry.
C17_Remaining ==
    \A email \in Emails :
        history[email].n >= MAX_ATTEMPTS =>
            LET t == history[email].at
                res == IsLocked(attempts, email, clock)
            IN IF clock <= t + LOCK_TIME
               THEN /\ res.locked
                    /\ res.remainingMs = t + LOCK_TIME - clock
                    /\ res.attempts = attempts
               ELSE /\ ~res.locked
                    /\ res.remainingMs = 0
                    /\ res.attempts[email] = NoAttempt

\* C17, after the expiry: an email whose entry is gone or carries no lock has
\* fewer than MAX_ATTEMPTS failures accumulated, so that MAX_ATTEMPTS new
\* failures are needed to lock an email again after its lock expired.
C17_Relock ==
    /\ \A email \in Emails :
          (attempts[email].lockedUntil = 0) <=> (history[email].n < MAX_ATTEMPTS)
    /\ \A email \in Emails : attempts[email].count = history[email].n

C17_WitnessRemaining ==
    \E email \in Emails :
        /\ IsLocked(attempts, email, clock).locked
        /\ IsLocked(attempts, email, clock).remainingMs < LOCK_TIME

\* MAX_ATTEMPTS sign-ins have failed for the email with no successful one in
\* between, and the lock they set has not run out.
LockedOut(email) ==
    /\ history[email].n >= MAX_ATTEMPTS
    /\ clock <= history[email].at + LOCK_TIME

\* A signIn call made in this step ended in the same step, before its first
\* await: no call in flight moved, and a response for the email came out.
RefusedAtOnce(email) ==
    /\ calls' = calls
    /\ response' # response
    /\ response'.op = "signIn"
    /\ response'.email = email

\* C15, the locked email: while an email is locked out no signIn for it gets
\* past the lock check, and a signIn made for it throws
\* TooManyRequestException after logging ACCOUNT_LOCKED, with no failure
\* recorded and no token issued, whatever the password.
C15_Locked ==
    \A email \in Emails :
        LockedOut(email) =>
            /\ \A c \in Calls :
                  ~(/\ calls[c].pc = "idle"
                    /\ calls'[c].pc = "signIn_lookup"
                    /\ calls'[c].email = email)
            /\ RefusedAtOnce(email) =>
                  /\ response'.result = "TooManyRequestException"
                  /\ response'.log = <<"ACCOUNT_LOCKED">>
                  /\ response'.refreshToken = NoToken
                  /\ response'.accessToken = ""
                  /\ UNCHANGED <<attempts, history, tokenRecords>>

\* C15, the reset: a signIn that returns tokens leaves no failure counted for
\* its email.
C15_Reset ==
    (/\ response' # response
     /\ response'.op = "signIn"
     /\ response'.result = "ok")
    => /\ attempts'[response'.email] = NoAttempt
       /\ ~IsLocked(attempts', response'.email, clock').locked

\* C15: after MAX_ATTEMPTS failed signIn calls for an email with no
\* successful one in between, every further signIn for it before the lock
\* expires throws TooManyRequestException after logging ACCOUNT_LOCKED, even
\* with the correct password; a successful signIn resets the count.
C15_Lockout == [][C15_Locked /\ C15_Reset]_vars

\* C15 witness: a signIn with the correct password of an active user was
\* refused because the email is locked out.
C15_Witness ==
    /\ response.op = "signIn"
    /\ response.result = "TooManyRequestException"
    /\ response.email = "ann@x"
    /\ response.password = "pw"
    /\ "u1" \in active
    /\ history["ann@x"].n >= MAX_ATTEMPTS
    /\ clock <= history["ann@x"].at + LOCK_TIME

\* The row the payload of a presented token names, in the table as it is
\* before the step (0 when there is none).
RowOf(token) == FindUniqueJti(token.jti)

\* C18, the check: a refreshToken call goes past its verification only with a
\* token whose signature verifies and is not expired, and whose row exists, is
\* not revoked, is not expired and matches the token's hash.
C18_Verified ==
    \A c \in Calls :
        (calls[c].pc = "idle" /\ calls'[c].pc = "refresh_revoke") =>
            LET t == calls'[c].oldToken
                k == RowOf(t)
            IN /\ t.sig = "good"
               /\ clock < t.exp
               /\ k # 0
               /\ calls'[c].tokenRecord = k
               /\ ~tokenRecords[k].revoked
               /\ tokenRecords[k].expiresAt >= clock
               /\ tokenRecords[k].tokenHash = TokenHash(t)

\* C18, the exchange: when refreshToken returns tokens the user is active,
\* the presented token's row is revoked with replacedBy the jti of the new
\* refresh token, and the new token has its own row.
C18_Issued ==
    (/\ response' # response
     /\ response'.op = "refreshToken"
     /\ response'.result = "ok")
    => LET k == RowOf(response'.oldToken)
           new == response'.refreshToken
       IN /\ k # 0
          /\ tokenRecords'[k].revoked
          /\ tokenRecords'[k].replacedBy = new.jti
          /\ tokenRecords'[k].userId \in active
          /\ new.sub = tokenRecords'[k].userId
          /\ response'.accessToken = tokenRecords'[k].userId
          /\ \E n \in 1..Len(tokenRecords') :
                /\ n # k
                /\ tokenRecords'[n].jti = new.jti
                /\ ~tokenRecords'[n].revoked

\* C18, the rejections: a refreshToken call that does not return "ok"
\* returns no token, and one made with a token whose row is revoked (an
\* exchanged token presented again) throws UnauthorizedException at once and
\* changes nothing.
C18_Rejected ==
    (response' # response /\ response'.op = "refreshToken") =>
        /\ response'.result # "ok" =>
              response'.refreshToken = NoToken /\ response'.accessToken = ""
        /\ (/\ calls' = calls
            /\ RowOf(response'.oldToken) # 0
            /\ tokenRecords[RowOf(response'.oldToken)].revoked)
           => /\ response'.result = "UnauthorizedException"
              /\ UNCHANGED tokenRecords

\* C18: refreshToken issues new tokens only for a verified, stored,
\* unrevoked, unexpired, matching token of an active user; on success the
\* presented token's row is revoked and points to the new token, and the
\* same token presented again is rejected with UnauthorizedException.
C18_Rotation == [][C18_Verified /\ C18_Issued /\ C18_Rejected]_vars

\* C18 witness: a token that had been exchanged for a new one was presented
\* again, still unexpired, and was rejected.
C18_Witness ==
    /\ response.op = "refreshToken"
    /\ response.result = "UnauthorizedException"
    /\ response.oldToken.sig = "good"
    /\ clock < response.oldToken.exp
    /\ LET k == RowOf(response.oldToken)
       IN /\ k # 0
          /\ tokenRecords[k].revoked
          /\ \E n \in TokenIds :
                /\ tokenRecords[n].jti = tokenRecords[k].replacedBy
                /\ tokenRecords[n].returned

\* C18 second witness: an exchange was refused because the user had been
\* deactivated after the token was verified.
C18_WitnessInactive ==
    /\ response.op = "refreshToken"
    /\ response.result = "UnauthorizedException"
    /\ RowOf(response.oldToken) # 0
    /\ \E n \in TokenIds :
          /\ tokenRecords[n].jti = tokenRecords[RowOf(response.oldToken)].replacedBy
          /\ ~tokenRecords[n].returned

\* Run r met no fault of a store or provider: it printed no error and logged
\* no failure other than the version number conflict.
NoFaultMet(r) ==
    /\ run[r].printed = <<>>
    /\ \A k \in 1..Len(audit[r]) : audit[r][k] \in {Success, DuplicateVersion}

\* C19: when a run has ended with its version FAILED, a later upload of a
\* valid catalog for the same provider that meets no fault opens a version
\* and ends with it activated.
C19_FailedDoesNotBlock ==
    \A r \in Runs :
        (/\ run[r].pc = "resolved"
         /\ ValidateCatalogPreconditions(run[r].providerId, run[r].filePath).kind
               = "valid"
         /\ NoFaultMet(r)
         /\ \E q \in Runs :
               /\ q < r
               /\ run[q].providerId = run[r].providerId
               /\ run[q].version # 0
               /\ versions[run[q].version].status = FAILED)
        => /\ run[r].version # 0
           /\ versions[run[r].version].status \in {ACTIVE, ARCHIVED}

\* An item of version v goes from active to inactive in this step.
ItemsDeactivated(v) ==
    \E it \in items :
        /\ it.catalogVersionId = v
        /\ it.active
        /\ it \notin items'
        /\ [it EXCEPT !.active = FALSE] \in items'

\* A vector tagged with version v is deleted in this step.
VectorsDeleted(v) ==
    \E id \in VectorIds :
        vectors[id].catalogVersionId = v /\ vectors'[id] = NoVector

\* C20: a run deactivates the items and deletes the vectors of no version but
\* the one its activation transaction archived, and only once that
\* transaction has committed (its version is ACTIVE, or already superseded by
\* a newer run) and its version's items have been set active; a run whose
\* transaction failed does neither.
C20_CutoverOrder ==
    [][\A r \in Runs :
          run'[r] # run[r] =>
              \A v \in VersionIds :
                  (v # run[r].version
                      /\ (ItemsDeactivated(v) \/ VectorsDeleted(v))) =>
                      LET new == run[r].version
                      IN /\ new # 0
                         /\ v = run[r].lastActiveVersionId
                         /\ \/ /\ versions[new].status = ACTIVE
                               /\ ItemsOf(new) # {}
                               /\ \A it \in ItemsOf(new) : it.active
                            \/ versions[new].status = ARCHIVED]_vars

\* C20 witness: a cutover is past the deactivation of the old version's
\* items, about to delete its vectors, with the new version live.
C20_Witness ==
    \E r \in Runs :
        /\ run[r].pc = "cleanup"
        /\ versions[run[r].version].status = ACTIVE
        /\ ItemsOf(run[r].lastActiveVersionId) # {}
        /\ \A it \in ItemsOf(run[r].lastActiveVersionId) : ~it.active
        /\ TaggedVectors(run[r].lastActiveVersionId) # {}

\* The run's activation catch block ran to its end: the Failure Handler
\* returned and the rollback's deleteVectorsByVersion did not throw.
RolledBack(r) ==
    /\ run[r].pc = "rollback"
    /\ run'[r].pc = "resolved"
    /\ run'[r].printed = run[r].printed

FinalizeFailure ==
    [action |-> CATALOG_PROCESSING_FAILED,
     reason |-> Reason("Failed to finalize catalog version activation")]

\* The activation catch block logs the finalize failure, leaves the new
\* version FAILED and no vector tagged with it.
C21_Compensated ==
    [][\A r \in Runs :
          RolledBack(r) =>
              /\ audit'[r][Len(audit'[r])] = FinalizeFailure
              /\ versions'[run[r].version].status = FAILED
              /\ \A id \in VectorIds :
                    vectors'[id].catalogVersionId # run[r].version]_vars

\* C21: when the activation transaction or the activation of the new
\* version's items throws, the run ends, after the Failure Handler and the
\* deletion of the new version's vectors, with the new version FAILED and the
\* version that was ACTIVE before the activation still ACTIVE.
C21_ActivationFailure ==
    [][\A r \in Runs :
          RolledBack(r) =>
              /\ audit'[r][Len(audit'[r])] = FinalizeFailure
              /\ versions'[run[r].version].status = FAILED
              /\ \A id \in VectorIds :
                    vectors'[id].catalogVersionId # run[r].version
              /\ run[r].lastActiveVersionId # 0 =>
                    versions'[run[r].lastActiveVersionId].status = ACTIVE]_vars

\* Run r's call at position pc threw in this step.
Threw(r, pc) ==
    /\ run[r].pc = pc
    /\ run'[r] # run[r]
    /\ faults' # faults

\* C22: a deleteVectorsByVersion that throws changes no outcome.  In the
\* cleanup after cutover the version rows and the items are left as they are
\* (the new version ACTIVE, its items active), the success event is logged and
\* the run resolves; in the rollback the version stays FAILED and the run
\* resolves, logging nothing more.
C22_DeleteFailure ==
    [][\A r \in Runs :
          /\ Threw(r, "cleanup") =>
                /\ versions' = versions
                /\ items' = items
                /\ audit'[r] = Append(audit[r], Success)
                /\ run'[r].pc = "resolved"
          /\ Threw(r, "rollback") =>
                /\ versions[run[r].version].status = FAILED
                /\ versions' = versions
                /\ items' = items
                /\ audit' = audit
                /\ run'[r].pc = "resolved"]_vars

\* C22 witness: a run whose cleanup delete threw ended with the success
\* event, its version ACTIVE and its items active.
C22_Witness ==
    \E r \in Runs :
        /\ run[r].pc = "resolved"
        /\ run[r].printed = <<"cleanup">>
        /\ audit[r] = <<Success>>
        /\ versions[run[r].version].status = ACTIVE
        /\ ItemsOf(run[r].version) # {}
        /\ \A it \in ItemsOf(run[r].version) : it.active

\* A run whose rollback delete threw resolved with its version FAILED.
C22_WitnessRollback ==
    \E r \in Runs :
        /\ run[r].pc = "resolved"
        /\ run[r].printed = <<"activation", "rollback">>
        /\ versions[run[r].version].status = FAILED

\* C23: the upsert retry is per batch: after a batch's upsert throws and the
\* loop goes on to retry, the batch sent next is the batch that failed, and
\* the batches that had succeeded are not sent again.
C23_PerBatchRetry ==
    [][\A r \in Runs :
          (Threw(r, "upsert") /\ run'[r].pc = "upsert") =>
              run'[r].batch = run[r].batch]_vars

\* The statuses and transport error kinds the two classifications are compared
\* on: no status or an HTTP status, and no transport error, a connection
\* reset, a timeout or a DNS failure.
HttpStatuses == {0, 400, 401, 403, 404, 429, 500, 599}
TransportKinds == {"", "ECONNRESET", "ETIMEDOUT", "ENOTFOUND"}

\* C24: for every HTTP status and transport error kind, handlePineconeError
\* and getEmbeddings give the same retryable flag: retryable for 429, 5xx and
\* transport errors, and not for 400, 401, 403, 404 and unrecognized errors.
C24_SameClassification ==
    LET e == embeddingCall.outcome.error
        p == pineconeCall.error
    IN (/\ embeddingCall.result.kind = "exception"
        /\ embeddingCall.outcome.kind = "error"
        /\ pineconeCall.called
        /\ e.status \in HttpStatuses
        /\ e.code \in TransportKinds
        /\ p.status = e.status
        /\ p.message = e.code) =>
           pineconeCall.retryable = embeddingCall.result.retryable

\* The part of C24 about transport errors alone: an error of the vector index
\* client with no status that is a connection reset, a timeout or a DNS
\* failure is retryable.
C24_TransportRetryable ==
    (/\ pineconeCall.called
     /\ pineconeCall.error.status = 0
     /\ pineconeCall.error.message \in TransportKinds \ {""}) =>
        pineconeCall.retryable

\* C25: the exception getEmbeddings throws is retryable exactly when the
\* provider threw an error whose status is 429 or in 500..599, or whose code
\* is ECONNRESET, ETIMEDOUT or ENOTFOUND, and whose status is none of 400,
\* 401, 403, 404; an invalid response and an empty text are non-retryable.
C25_Retryable ==
    LET e == embeddingCall.outcome.error
    IN embeddingCall.result.kind = "exception" =>
          (embeddingCall.result.retryable <=>
              /\ Trim(embeddingCall.text) # ""
              /\ embeddingCall.outcome.kind = "error"
              /\ \/ e.status = 429
                 \/ e.status \in 500..599
                 \/ e.code \in {"ECONNRESET", "ETIMEDOUT", "ENOTFOUND"}
              /\ e.status \notin {400, 401, 403, 404})

\* C25 witness: a provider error with a retryable code and a status of the
\* non-retryable list was thrown, and the exception is non-retryable.
C25_Witness ==
    /\ embeddingCall.result.kind = "exception"
    /\ embeddingCall.outcome.error = [status |-> 404, code |-> "ETIMEDOUT"]
    /\ ~embeddingCall.result.retryable

\* A timeout with no status is retryable; an invalid response is not.
C25_WitnessRetryable ==
    /\ embeddingCall.outcome.error = [status |-> 0, code |-> "ETIMEDOUT"]
    /\ embeddingCall.result.retryable

C25_WitnessInvalid ==
    /\ embeddingCall.outcome.kind = "invalid"
    /\ embeddingCall.result.kind = "exception"
    /\ ~embeddingCall.result.retryable

\* C26: with no call failing, once every run that started has terminated, an
\* item is active exactly when its version is its provider's ACTIVE version
\* (so every item of an ARCHIVED version is inactive).
C26_AfterConcurrentRuns ==
    (faults = 0 /\ \A r \in Runs : ~InFlight(r)) =>
        \A it \in items :
            it.active <=> (it.catalogVersionId = FindFirstActive(it.providerId))

\* Run q succeeded and its version is still the ACTIVE one, and every run
\* started after it has ended, with no version or with its version FAILED.
OnlyFailedRunsSince(q) ==
    /\ run[q].pc = "resolved"
    /\ audit[q] = <<Success>>
    /\ versions[run[q].version].status = ACTIVE
    /\ \A r \in Runs :
          (r > q /\ run[r].pc # "idle") =>
              /\ IsSettled(r)
              /\ run[r].version # 0 => versions[run[r].version].status = FAILED

\* C27: runs that end with their version FAILED leave the vectors of the
\* ACTIVE version as they were.  With uploads handled one after another, the
\* vectors the ACTIVE version's run published (one per row of its file, tagged
\* with its version) are still there, with the same values and the same tag,
\* after later runs of the provider have ended FAILED.
C27_FailedRunKeepsLiveVectors ==
    \A q \in Runs :
        (/\ run[q].pc = "resolved"
         /\ run[q].version # 0
         /\ OnlyFailedRunsSince(q)
         /\ \E r \in Runs : r > q /\ run[r].version # 0) =>
            LET rows == CsvFiles[run[q].filePath]
            IN \A i \in 1..Len(rows) :
                  vectors[<<run[q].providerId, rows[i].sku>>] =
                      [catalogVersionId |-> run[q].version,
                       values |-> BuildItemEmbeddingText(rows[i])]

\* C28: the promise processCatalog returns never rejects, whatever validation
\* finds and whichever store, provider or index call fails.
C28_NeverRejects == \A r \in Runs : run[r].pc # "rejected"

\* The part of C28 that holds: a run that passed validation rejects only when
\* a store call inside the Failure Handler threw.
C28_RejectsOnlyInHandler ==
    [][\A r \in Runs :
          (InFlight(r) /\ run'[r].pc = "rejected") =>
              run[r].pc \in {"hpf_update", "hpf_delete"}]_vars

ProcessingVersions(p) ==
    {v \in VersionsOf(p) : versions[v].status = PROCESSING}

\* C29, the rows: at most one version of a provider is PROCESSING, so no two
\* runs of a provider are both between version creation and activation.
C29_OneProcessingRow ==
    \A p \in ProviderIds : Cardinality(ProcessingVersions(p)) <= 1

\* C29, the step: while a version of the provider is PROCESSING, a run whose
\* insert reaches the store fails on the unique constraint and opens nothing.
C29_OpenBlocked ==
    \A r \in Runs :
        (/\ run[r].pc = "open"
         /\ run'[r] # run[r]
         /\ faults' = faults
         /\ ProcessingVersions(run[r].providerId) # {}) =>
            /\ audit'[r] = Append(audit[r], DuplicateVersion)
            /\ versions' = versions
            /\ run'[r].version = 0

\* C29: at most one version per provider is PROCESSING at any time; every
\* other attempt to open a version meanwhile fails on the (providerId,
\* versionNumber) unique constraint.
C29_OneProcessing == [](C29_OneProcessingRow) /\ [][C29_OpenBlocked]_vars

\* C29 witness: while a run was publishing its PROCESSING version, another
\* run's attempt to open a version of the provider failed on the constraint.
C29_Witness ==
    \E r, q \in Runs :
        /\ audit[r] = <<DuplicateVersion>>
        /\ run[r].pc = "resolved"
        /\ run[q].pc = "upsert"
        /\ run[q].providerId = run[r].providerId
        /\ ProcessingVersions(run[r].providerId) = {run[q].version}

\* The rows created by refreshToken calls that presented the token of row k.
ExchangesOf(k) == {j \in TokenIds : tokenRecords[j].exchangeOf = k}

\* C30: a refresh token is exchanged at most once: of the refreshToken calls
\* presenting one token, also when they interleave between the record lookup
\* and the revoke update, at most one creates a new refresh-token record and
\* at most one returns new tokens.
C30_ExchangedOnce ==
    \A k \in TokenIds :
        /\ Cardinality(ExchangesOf(k)) <= 1
        /\ Cardinality({j \in ExchangesOf(k) : tokenRecords[j].returned}) <= 1

\* The same for requests handled one after another.
C30_ExchangedOnceSeq ==
    \A k \in TokenIds :
        \A i, j \in ExchangesOf(k) : i = j

====
